---- MODULE Spec2Model ----
(***************************************************************************)
(* A model of src/main.py of PDFExtractCombiner: the page-range            *)
(* resolution, pdf_merge, the two spreadsheet converters (xlsx_to_pdf and  *)
(* win_xlsx_to_pdf with its Excel host), gather_xlsx_pdf_pairs and the two *)
(* modes of the command-line program.                                      *)
(*                                                                         *)
(* Four specifications share the module, one per function under study:     *)
(*   SpecXlsx   xlsx_to_pdf's resolution of its page ranges                *)
(*   SpecMerge  pdf_merge                                                  *)
(*   SpecWin    win_xlsx_to_pdf and the Excel host it drives               *)
(*   SpecBatch  mode_xlsx_pdf_combine / mode_pdf_first_page_combine        *)
(* The variables of the functions a specification does not run keep their  *)
(* idle values.                                                            *)
(***************************************************************************)
EXTENDS Integers, Sequences, FiniteSets, TLC

\* ------------------------------------------------------------------ bounds

\* Range bounds are drawn from -MaxBound..MaxBound and "absent".
MaxBound == 2
\* Sheet counts of a workbook are drawn from 0..MaxSheets.
MaxSheets == 3
\* Page counts of a document are drawn from 0..MaxPages.
MaxPages == 4
\* At most MaxFiles files are found under the working directory.
MaxFiles == 4

\* ------------------------------------------------------- pypdf.PageRange

\* An absent bound (Python's None) and a present one.
None == <<>>
Some(v) == <<v>>

\* pypdf.PageRange: a slice with step 1, each bound an integer or absent.
PageRange(start, stop) == [start |-> start, stop |-> stop]

BoundValues == {None} \cup {Some(v) : v \in (0 - MaxBound)..MaxBound}
PageRanges == {PageRange(s, e) : s \in BoundValues, e \in BoundValues}

\* slice.indices with a negative bound raised to 0 at once, not counted from
\* the end.
AdjustBoundClamped(b, n, default) ==
    IF b = None THEN default
    ELSE IF b[1] < 0 THEN 0
    ELSE IF b[1] >= n THEN n
    ELSE b[1]

\* One bound of slice.indices(n) for step 1: an absent bound takes its
\* default; a negative one counts from the end (n is added) and is then
\* raised to 0; one past the end is lowered to n.
AdjustBound(b, n, default) ==
    IF b = None THEN default
    ELSE IF b[1] < 0 THEN (IF b[1] + n < 0 THEN 0 ELSE b[1] + n)
    ELSE IF b[1] >= n THEN n
    ELSE b[1]

\* page_range.indices(n): the (start, stop) handed to range().
indices(page_range, n) ==
    <<AdjustBound(page_range.start, n, 0), AdjustBound(page_range.stop, n, n)>>

\* range(start, stop) as the sequence a for loop walks.
PyRange(start, stop) ==
    [j \in 1..(IF stop > start THEN stop - start ELSE 0) |-> start + j - 1]

\* Lists of at most two page ranges.
RangeLists(ranges) ==
    {<<>>} \cup {<<r>> : r \in ranges} \cup {<<r, s>> : r \in ranges, s \in ranges}

\* ------------------------------------------------------------- variables

VARIABLES
    \* xlsx_to_pdf: its arguments, the position of its loops, its list
    xs_page_ranges, xs_n_sheets, xs_k, xs_iter, extract_sheets, xs_pc,
    \* pdf_merge: its plan, the page count of each source, the writer's pages,
    \* the position of its loops, the file written
    pm_pdfs, pm_n_pages, pdf_writer, pm_s, pm_r, pm_pc, pm_output,
    \* win_xlsx_to_pdf: its arguments and locals, the position of its loops,
    \* the exception in flight
    xlsx, page_ranges, n_sheets, use_excel_instance, excel_instance, workbook,
    wx_k, wx_iter, saved_worksheet_paths, cleanup_file_paths, wx_pending, wx_pc,
    \* the Excel host: its DisplayAlerts setting, whether the workbook is open
    \* on it, the sheets it was asked for, the handles Quit was called on
    DisplayAlerts, host_workbook_open, host_requests, host_quit,
    \* the temp directory's files, the os.remove calls made
    tmp_files, remove_calls,
    \* the program: the files under the working directory, the mode, what
    \* gather_xlsx_pdf_pairs returned, the position in the mode's function,
    \* the output directory, the shared host, the pair in hand, the outputs
    files, selected_mode, xlsx_pdf_pairs, disjoint_files, n_merging, bt_pc,
    output_dir_created, common_excel_instance, bt_pair, output_paths,
    combined_pdf, bt_exc

xlsxVars == <<xs_page_ranges, xs_n_sheets, xs_k, xs_iter, extract_sheets, xs_pc>>
mergeVars == <<pm_pdfs, pm_n_pages, pdf_writer, pm_s, pm_r, pm_pc, pm_output>>

winVars ==
    <<xlsx, page_ranges, n_sheets, use_excel_instance, excel_instance, workbook,
      wx_k, wx_iter, saved_worksheet_paths, cleanup_file_paths, wx_pending, wx_pc,
      DisplayAlerts, host_workbook_open, host_requests, host_quit,
      tmp_files, remove_calls>>

batchVars ==
    <<files, selected_mode, xlsx_pdf_pairs, disjoint_files, n_merging, bt_pc,
      output_dir_created, common_excel_instance, bt_pair, output_paths,
      combined_pdf, bt_exc>>

vars == <<xlsxVars, mergeVars, winVars, batchVars>>

\* ------------------------------------------------------------ xlsx_to_pdf

XlsxIdle ==
    /\ xs_page_ranges = <<>>
    /\ xs_n_sheets = 0
    /\ xs_k = 1
    /\ xs_iter = <<>>
    /\ extract_sheets = <<>>
    /\ xs_pc = "idle"

\* The call xlsx_to_pdf(xlsx, page_ranges) on a workbook of n_sheets sheets.
XlsxCall ==
    /\ xs_page_ranges \in RangeLists(PageRanges)
    /\ xs_n_sheets \in 0..MaxSheets
    /\ xs_k = 1
    /\ xs_iter = <<>>
    /\ extract_sheets = <<>>
    /\ xs_pc = "outer"

\* for sheet_range in page_ranges: the next range is resolved against n_sheets.
XlsxNextRange ==
    /\ xs_pc = "outer"
    /\ xs_k <= Len(xs_page_ranges)
    /\ LET se == indices(xs_page_ranges[xs_k], xs_n_sheets)
       IN xs_iter' = PyRange(se[1], se[2])
    /\ xs_pc' = "inner"
    /\ UNCHANGED <<xs_page_ranges, xs_n_sheets, xs_k, extract_sheets>>

\* for i in range(...): extract_sheets.append(i)
XlsxAppend ==
    /\ xs_pc = "inner"
    /\ xs_iter # <<>>
    /\ extract_sheets' = Append(extract_sheets, Head(xs_iter))
    /\ xs_iter' = Tail(xs_iter)
    /\ UNCHANGED <<xs_page_ranges, xs_n_sheets, xs_k, xs_pc>>

\* The inner loop is exhausted: on to the next range.
XlsxEndRange ==
    /\ xs_pc = "inner"
    /\ xs_iter = <<>>
    /\ xs_k' = xs_k + 1
    /\ xs_pc' = "outer"
    /\ UNCHANGED <<xs_page_ranges, xs_n_sheets, xs_iter, extract_sheets>>

\* The ranges are exhausted: the sheets are read and rendered. pandas.concat
\* refuses an empty list of frames, so an empty selection ends in ValueError.
XlsxRender ==
    /\ xs_pc = "outer"
    /\ xs_k > Len(xs_page_ranges)
    /\ xs_pc' = IF extract_sheets = <<>> THEN "raised" ELSE "returned"
    /\ UNCHANGED <<xs_page_ranges, xs_n_sheets, xs_k, xs_iter, extract_sheets>>

\* -------------------------------------------------------------- pdf_merge

MergePaths == {"a.pdf", "b.pdf"}

\* The ranges a plan draws from: the three the program itself passes
\* (":3", ":1", "3:5") and two with an absent or a negative bound.
MergeRanges ==
    { PageRange(None, Some(3)), PageRange(None, Some(1)), PageRange(Some(3), Some(5)),
      PageRange(Some(1), None), PageRange(Some(-1), None) }

\* The pdfs argument: a dict, so an ordered list of distinct paths, each with
\* its list of page ranges.
MergeEntries ==
    {[path |-> p, page_ranges |-> l] : p \in MergePaths, l \in RangeLists(MergeRanges)}
MergePlans ==
    {<<>>}
    \cup {<<e>> : e \in MergeEntries}
    \cup {ef \in MergeEntries \X MergeEntries : ef[1].path # ef[2].path}

\* A page of a source document.
Page(path, i) == [path |-> path, index |-> i]

\* The pages of a reader of n pages that range(start, stop) selects.
ReaderPages(path, start, stop) ==
    LET r == PyRange(start, stop) IN [j \in 1..Len(r) |-> Page(path, r[j])]

\* A writer that leaves out the pages it holds already.
WriterAppendDistinct(writer, pages) ==
    writer \o SelectSeq(pages, LAMBDA pg : \A j \in 1..Len(writer) : writer[j] # pg)

\* pdf_writer.append: the pages go to the end of the writer, as they come.
WriterAppend(writer, pages) == writer \o pages

MergeIdle ==
    /\ pm_pdfs = <<>>
    /\ pm_n_pages = [p \in MergePaths |-> 0]
    /\ pdf_writer = <<>>
    /\ pm_s = 1
    /\ pm_r = 1
    /\ pm_pc = "idle"
    /\ pm_output = None

\* The call pdf_merge(output_path, pdfs); pdf_writer = pypdf.PdfWriter().
MergeCall ==
    /\ pm_pdfs \in MergePlans
    /\ pm_n_pages \in [MergePaths -> 0..MaxPages]
    /\ pdf_writer = <<>>
    /\ pm_s = 1
    /\ pm_r = 1
    /\ pm_pc = "loop"
    /\ pm_output = None

\* len(page_ranges) > 0: pdf_writer.append(path, pages=page_range) for the
\* next range of the current source.
MergeAppendRange ==
    /\ pm_pc = "loop"
    /\ pm_s <= Len(pm_pdfs)
    /\ LET src == pm_pdfs[pm_s]
           se == indices(src.page_ranges[pm_r], pm_n_pages[src.path])
       IN /\ Len(src.page_ranges) > 0
          /\ pdf_writer' = WriterAppend(pdf_writer, ReaderPages(src.path, se[1], se[2]))
          /\ IF pm_r < Len(src.page_ranges)
                THEN pm_r' = pm_r + 1 /\ pm_s' = pm_s
                ELSE pm_r' = 1 /\ pm_s' = pm_s + 1
    /\ UNCHANGED <<pm_pdfs, pm_n_pages, pm_pc, pm_output>>

\* An empty range list: pdf_writer.append(path), the whole source.
MergeAppendAll ==
    /\ pm_pc = "loop"
    /\ pm_s <= Len(pm_pdfs)
    /\ LET src == pm_pdfs[pm_s]
       IN /\ Len(src.page_ranges) = 0
          /\ pdf_writer' = WriterAppend(pdf_writer, ReaderPages(src.path, 0, pm_n_pages[src.path]))
    /\ pm_s' = pm_s + 1
    /\ UNCHANGED <<pm_pdfs, pm_n_pages, pm_r, pm_pc, pm_output>>

\* pdf_writer.append raises on a source pypdf cannot read: pdf_merge has no
\* handler, nothing is written.
MergeAppendRaises ==
    /\ pm_pc = "loop"
    /\ pm_s <= Len(pm_pdfs)
    /\ pm_pc' = "raised"
    /\ UNCHANGED <<pm_pdfs, pm_n_pages, pdf_writer, pm_s, pm_r, pm_output>>

\* pdf_writer.write(output_path); pdf_writer.close()
MergeWrite ==
    /\ pm_pc = "loop"
    /\ pm_s > Len(pm_pdfs)
    /\ pm_output' = Some(pdf_writer)
    /\ pm_pc' = "closed"
    /\ UNCHANGED <<pm_pdfs, pm_n_pages, pdf_writer, pm_s, pm_r>>

\* -------------------------------------------------------- win_xlsx_to_pdf

\* xlsx_sheets of mode_xlsx_pdf_combine: [PageRange("3:5")].
DefaultXlsxSheets == <<PageRange(Some(3), Some(5))>>

\* The temp file of the sheet with host index h (named after worksheet.Name),
\* and the merged artifact's.
SheetPath(book, h) == <<book, "Sheet", h>>
OutputPdfPath(book) == <<book, "Extracted">>

\* The host asked for index i, as if its sheets were numbered from 0.
HostIndexZeroBased(i) == i

\* The index the host is asked for: workbook.Worksheets(i + 1).
HostIndex(i) == i + 1

WinIdle ==
    /\ xlsx = "none"
    /\ page_ranges = <<>>
    /\ n_sheets = 0
    /\ use_excel_instance = None
    /\ excel_instance = None
    /\ workbook = None
    /\ wx_k = 1
    /\ wx_iter = <<>>
    /\ saved_worksheet_paths = <<>>
    /\ cleanup_file_paths = <<>>
    /\ wx_pending = "none"
    /\ wx_pc = "idle"
    /\ DisplayAlerts = TRUE
    /\ host_workbook_open = FALSE
    /\ host_requests = <<>>
    /\ host_quit = {}
    /\ tmp_files = {}
    /\ remove_calls = <<>>

\* The call win_xlsx_to_pdf(xlsx, page_ranges, use_excel_instance), lines
\* 100-111. A host of the caller's may come with its alerts already silenced;
\* a host of the call's own starts with Excel's default, alerts displayed.
WinCall ==
    /\ xlsx = "Book.xlsx"
    /\ \/ page_ranges \in RangeLists(PageRanges) /\ n_sheets \in 0..MaxSheets
       \/ page_ranges = DefaultXlsxSheets /\ n_sheets = 10
    /\ use_excel_instance \in {None, Some("caller")}
    /\ DisplayAlerts \in (IF use_excel_instance = None THEN {TRUE} ELSE BOOLEAN)
    /\ excel_instance = None
    /\ workbook = None
    /\ wx_k = 1
    /\ wx_iter = <<>>
    /\ saved_worksheet_paths = <<>>
    /\ cleanup_file_paths = <<>>
    /\ wx_pending = "none"
    /\ wx_pc = "dispatch"
    /\ host_workbook_open = FALSE
    /\ host_requests = <<>>
    /\ host_quit = {}
    /\ tmp_files = {}
    /\ remove_calls = <<>>

\* A host call of the try block raises pythoncom.com_error.
WinComError ==
    /\ wx_pending' = "com_error"
    /\ wx_pc' = "except"

\* Where the finally block leaves to: the cleanup when no exception is in
\* flight, the caller otherwise.
AfterFinally(pending) == IF pending = "none" THEN "cleanup" ELSE "raised"

\* Lines 116-119: the caller's host, or a new one of the call's own
\* (EnsureDispatch may raise).
WinDispatch ==
    /\ wx_pc = "dispatch"
    /\ \/ /\ use_excel_instance # None
          /\ excel_instance' = use_excel_instance
          /\ wx_pc' = "visible"
          /\ UNCHANGED wx_pending
       \/ /\ use_excel_instance = None
          /\ excel_instance' = Some("own")
          /\ wx_pc' = "visible"
          /\ UNCHANGED wx_pending
       \/ /\ use_excel_instance = None
          /\ WinComError
          /\ UNCHANGED excel_instance
    /\ UNCHANGED <<xlsx, page_ranges, n_sheets, use_excel_instance, workbook, wx_k, wx_iter,
                   saved_worksheet_paths, cleanup_file_paths, DisplayAlerts,
                   host_workbook_open, host_requests, host_quit, tmp_files, remove_calls>>

\* Line 121: excel_instance.Visible = False
WinHide ==
    /\ wx_pc = "visible"
    /\ \/ wx_pc' = "alerts" /\ UNCHANGED wx_pending
       \/ WinComError
    /\ UNCHANGED <<xlsx, page_ranges, n_sheets, use_excel_instance, excel_instance, workbook,
                   wx_k, wx_iter, saved_worksheet_paths, cleanup_file_paths, DisplayAlerts,
                   host_workbook_open, host_requests, host_quit, tmp_files, remove_calls>>

\* Line 124: excel_instance.DisplayAlerts = False, the alerts are silenced.
WinSilence ==
    /\ wx_pc = "alerts"
    /\ \/ DisplayAlerts' = FALSE /\ wx_pc' = "open" /\ UNCHANGED wx_pending
       \/ WinComError /\ UNCHANGED DisplayAlerts
    /\ UNCHANGED <<xlsx, page_ranges, n_sheets, use_excel_instance, excel_instance, workbook,
                   wx_k, wx_iter, saved_worksheet_paths, cleanup_file_paths,
                   host_workbook_open, host_requests, host_quit, tmp_files, remove_calls>>

\* Lines 126-127: workbook = excel_instance.Workbooks.Open(str(xlsx))
WinOpen ==
    /\ wx_pc = "open"
    /\ \/ /\ workbook' = Some("workbook")
          /\ host_workbook_open' = TRUE
          /\ wx_pc' = "ranges"
          /\ UNCHANGED wx_pending
       \/ WinComError /\ UNCHANGED <<workbook, host_workbook_open>>
    /\ UNCHANGED <<xlsx, page_ranges, n_sheets, use_excel_instance, excel_instance,
                   wx_k, wx_iter, saved_worksheet_paths, cleanup_file_paths, DisplayAlerts,
                   host_requests, host_quit, tmp_files, remove_calls>>

\* Lines 129-130: the next page range is resolved against n_sheets.
WinNextRange ==
    /\ wx_pc = "ranges"
    /\ wx_k <= Len(page_ranges)
    /\ LET se == indices(page_ranges[wx_k], n_sheets)
       IN wx_iter' = PyRange(se[1], se[2])
    /\ wx_k' = wx_k + 1
    /\ wx_pc' = "sheets"
    /\ UNCHANGED <<xlsx, page_ranges, n_sheets, use_excel_instance, excel_instance, workbook,
                   saved_worksheet_paths, cleanup_file_paths, wx_pending, DisplayAlerts,
                   host_workbook_open, host_requests, host_quit, tmp_files, remove_calls>>

\* Lines 134-145: the host is asked for worksheet i + 1, which is activated
\* and saved as a pdf in the temp directory; any of the three calls may raise.
WinSaveSheet ==
    /\ wx_pc = "sheets"
    /\ wx_iter # <<>>
    /\ LET h == HostIndex(Head(wx_iter))
       IN /\ host_requests' = Append(host_requests, h)
          /\ \/ /\ tmp_files' = tmp_files \cup {SheetPath(xlsx, h)}
                /\ saved_worksheet_paths' = Append(saved_worksheet_paths, SheetPath(xlsx, h))
                /\ cleanup_file_paths' = Append(cleanup_file_paths, SheetPath(xlsx, h))
                /\ wx_iter' = Tail(wx_iter)
                /\ UNCHANGED <<wx_pending, wx_pc>>
             \/ /\ WinComError
                /\ UNCHANGED <<tmp_files, saved_worksheet_paths, cleanup_file_paths, wx_iter>>
    /\ UNCHANGED <<xlsx, page_ranges, n_sheets, use_excel_instance, excel_instance, workbook,
                   wx_k, DisplayAlerts, host_workbook_open, host_quit, remove_calls>>

\* The inner loop is exhausted.
WinEndRange ==
    /\ wx_pc = "sheets"
    /\ wx_iter = <<>>
    /\ wx_pc' = "ranges"
    /\ UNCHANGED <<xlsx, page_ranges, n_sheets, use_excel_instance, excel_instance, workbook,
                   wx_k, wx_iter, saved_worksheet_paths, cleanup_file_paths, wx_pending,
                   DisplayAlerts, host_workbook_open, host_requests, host_quit,
                   tmp_files, remove_calls>>

\* Line 147: pdf_merge(output_pdf_path, {path: [] for path in
\* saved_worksheet_paths}); a pypdf error is no com_error and goes straight
\* to the finally block.
WinMerge ==
    /\ wx_pc = "ranges"
    /\ wx_k > Len(page_ranges)
    /\ \/ /\ tmp_files' = tmp_files \cup {OutputPdfPath(xlsx)}
          /\ UNCHANGED wx_pending
       \/ /\ wx_pending' = "other"
          /\ UNCHANGED tmp_files
    /\ wx_pc' = "finally_close"
    /\ UNCHANGED <<xlsx, page_ranges, n_sheets, use_excel_instance, excel_instance, workbook,
                   wx_k, wx_iter, saved_worksheet_paths, cleanup_file_paths,
                   DisplayAlerts, host_workbook_open, host_requests, host_quit, remove_calls>>

\* Lines 148-159: the com_error is translated into a RuntimeError.
WinTranslate ==
    /\ wx_pc = "except"
    /\ wx_pending' = "RuntimeError"
    /\ wx_pc' = "finally_close"
    /\ UNCHANGED <<xlsx, page_ranges, n_sheets, use_excel_instance, excel_instance, workbook,
                   wx_k, wx_iter, saved_worksheet_paths, cleanup_file_paths,
                   DisplayAlerts, host_workbook_open, host_requests, host_quit,
                   tmp_files, remove_calls>>

\* Lines 161-162: workbook.Close() when a workbook was opened. A com_error
\* raised here leaves the finally block at once.
WinClose ==
    /\ wx_pc = "finally_close"
    /\ \/ /\ workbook = None
          /\ wx_pc' = "finally_alerts"
          /\ UNCHANGED <<host_workbook_open, wx_pending>>
       \/ /\ workbook # None
          /\ host_workbook_open' = FALSE
          /\ wx_pc' = "finally_alerts"
          /\ UNCHANGED wx_pending
       \/ /\ workbook # None
          /\ wx_pending' = "com_error"
          /\ wx_pc' = "raised"
          /\ UNCHANGED host_workbook_open
    /\ UNCHANGED <<xlsx, page_ranges, n_sheets, use_excel_instance, excel_instance, workbook,
                   wx_k, wx_iter, saved_worksheet_paths, cleanup_file_paths, DisplayAlerts,
                   host_requests, host_quit, tmp_files, remove_calls>>

\* The value line 165 writes to excel_instance.DisplayAlerts.
FinallyDisplayAlerts == FALSE

\* Lines 164-165: excel_instance.DisplayAlerts = False when there is a host.
WinResetAlerts ==
    /\ wx_pc = "finally_alerts"
    /\ \/ /\ excel_instance = None
          /\ wx_pc' = AfterFinally(wx_pending)
          /\ UNCHANGED <<DisplayAlerts, wx_pending>>
       \/ /\ excel_instance # None
          /\ DisplayAlerts' = FinallyDisplayAlerts
          /\ wx_pc' = "finally_quit"
          /\ UNCHANGED wx_pending
       \/ /\ excel_instance # None
          /\ wx_pending' = "com_error"
          /\ wx_pc' = "raised"
          /\ UNCHANGED DisplayAlerts
    /\ UNCHANGED <<xlsx, page_ranges, n_sheets, use_excel_instance, excel_instance, workbook,
                   wx_k, wx_iter, saved_worksheet_paths, cleanup_file_paths,
                   host_workbook_open, host_requests, host_quit, tmp_files, remove_calls>>

\* Whether line 168 lets the call quit its host.
QuitsHost(use) == use = None

\* Lines 168-169: excel_instance.Quit() unless the host is the caller's.
WinQuit ==
    /\ wx_pc = "finally_quit"
    /\ \/ /\ ~QuitsHost(use_excel_instance)
          /\ wx_pc' = AfterFinally(wx_pending)
          /\ UNCHANGED <<host_quit, wx_pending>>
       \/ /\ QuitsHost(use_excel_instance)
          /\ host_quit' = host_quit \cup {excel_instance[1]}
          /\ wx_pc' = AfterFinally(wx_pending)
          /\ UNCHANGED wx_pending
       \/ /\ QuitsHost(use_excel_instance)
          /\ host_quit' = host_quit \cup {excel_instance[1]}
          /\ wx_pending' = "com_error"
          /\ wx_pc' = "raised"
    /\ UNCHANGED <<xlsx, page_ranges, n_sheets, use_excel_instance, excel_instance, workbook,
                   wx_k, wx_iter, saved_worksheet_paths, cleanup_file_paths, DisplayAlerts,
                   host_workbook_open, host_requests, tmp_files, remove_calls>>

\* Lines 171-173: os.remove(path) for the next path of cleanup_file_paths.
WinRemove ==
    /\ wx_pc = "cleanup"
    /\ Len(remove_calls) < Len(cleanup_file_paths)
    /\ LET path == cleanup_file_paths[Len(remove_calls) + 1]
       IN /\ path \in tmp_files
          /\ remove_calls' = Append(remove_calls, path)
          /\ tmp_files' = tmp_files \ {path}
    /\ UNCHANGED <<xlsx, page_ranges, n_sheets, use_excel_instance, excel_instance, workbook,
                   wx_k, wx_iter, saved_worksheet_paths, cleanup_file_paths, wx_pending,
                   wx_pc, DisplayAlerts, host_workbook_open, host_requests, host_quit>>

\* Lines 174-178: os.remove raises OSError (the file is gone already, or
\* cannot be deleted); the handler sits outside the loop, so the loop ends
\* and the function returns.
WinRemoveFails ==
    /\ wx_pc = "cleanup"
    /\ Len(remove_calls) < Len(cleanup_file_paths)
    /\ remove_calls' = Append(remove_calls, cleanup_file_paths[Len(remove_calls) + 1])
    /\ wx_pc' = "returned"
    /\ UNCHANGED <<xlsx, page_ranges, n_sheets, use_excel_instance, excel_instance, workbook,
                   wx_k, wx_iter, saved_worksheet_paths, cleanup_file_paths, wx_pending,
                   DisplayAlerts, host_workbook_open, host_requests, host_quit, tmp_files>>

\* Lines 177-178: every path was removed; return output_pdf_path.
WinReturn ==
    /\ wx_pc = "cleanup"
    /\ Len(remove_calls) = Len(cleanup_file_paths)
    /\ wx_pc' = "returned"
    /\ UNCHANGED <<xlsx, page_ranges, n_sheets, use_excel_instance, excel_instance, workbook,
                   wx_k, wx_iter, saved_worksheet_paths, cleanup_file_paths, wx_pending,
                   DisplayAlerts, host_workbook_open, host_requests, host_quit,
                   tmp_files, remove_calls>>

\* ------------------------------------------------------------ the program

SEARCH_FILES_RECURSIVELY == TRUE
DISALLOW_ZERO_PAGE_PDF_MERGE == TRUE
PDF_EXTENSION == ".pdf"
EXCEL_EXTENSION == ".xlsx"

\* The files that may lie under the working directory: "." is the directory
\* itself, "sub" a directory below it.
Dirs == {".", "sub"}
Stems == {"Feb", "Jan", "Mar"}
Path(dir, stem, ext) == [dir |-> dir, stem |-> stem, ext |-> ext]
AllPaths == {Path(d, st, e) : d \in Dirs, st \in Stems, e \in {PDF_EXTENSION, EXCEL_EXTENSION}}

\* The order sorted() puts the stems in.
StemRank(stem) == CASE stem = "Feb" -> 1 [] stem = "Jan" -> 2 [] stem = "Mar" -> 3

\* get_files_with_ext: rglob finds the files of every directory below, glob
\* those of the directory itself.
get_files_with_ext(fs, ext, recursive) ==
    {f \in fs : f.ext = ext /\ (recursive \/ f.dir = ".")}

StemsOf(found) == {f.stem : f \in found}

\* {path.stem: path for path in found}: one entry for each stem; of two
\* paths with one stem the later of the listing stays.
StemDict(found) == [st \in StemsOf(found) |-> CHOOSE f \in found : f.stem = st]

\* The test of line 279 with the spreadsheets left out.
HasDuplicatePdfNames(found_pdfs, found_xlsx) ==
    Cardinality(found_pdfs) # Cardinality(DOMAIN StemDict(found_pdfs))

\* Line 279: the test that raises DuplicateFileNames.
HasDuplicateNames(found_pdfs, found_xlsx) ==
    \/ Cardinality(found_pdfs) # Cardinality(DOMAIN StemDict(found_pdfs))
    \/ Cardinality(found_xlsx) # Cardinality(DOMAIN StemDict(found_xlsx))

\* The names of the first set only.
difference(a, b) == a \ b

\* Line 285: pdf_names.symmetric_difference(xlsx_names)
symmetric_difference(a, b) == (a \ b) \cup (b \ a)

\* gather_xlsx_pdf_pairs: "DuplicateFileNames" when it raises, else the
\* pairs (pdf path, xlsx path) and the names found under one extension only.
gather_xlsx_pdf_pairs(fs) ==
    LET found_pdfs == get_files_with_ext(fs, PDF_EXTENSION, SEARCH_FILES_RECURSIVELY)
        found_xlsx == get_files_with_ext(fs, EXCEL_EXTENSION, SEARCH_FILES_RECURSIVELY)
        mapped_pdfs == StemDict(found_pdfs)
        mapped_xlsx == StemDict(found_xlsx)
        pdf_names == StemsOf(found_pdfs)
        xlsx_names == StemsOf(found_xlsx)
        names_intersection == pdf_names \cap xlsx_names
        names_disjoint == symmetric_difference(pdf_names, xlsx_names)
    IN IF HasDuplicateNames(found_pdfs, found_xlsx)
         THEN [raised |-> "DuplicateFileNames", pairs |-> {}, disjoint |-> {}]
         ELSE [raised |-> "none",
               pairs |-> {<<mapped_pdfs[name], mapped_xlsx[name]>> : name \in names_intersection},
               disjoint |-> names_disjoint]

\* The guard with n < 0 for n <= 0.
check_do_not_merge_negative(n) == DISALLOW_ZERO_PAGE_PDF_MERGE /\ n < 0

\* check_do_not_merge_zero: whether it exits.
check_do_not_merge_zero(n) == DISALLOW_ZERO_PAGE_PDF_MERGE /\ n <= 0

\* The merged output of a pair: <stem>_Merged.pdf in the output directory.
OutputPath(pdf_path) == <<"output", pdf_path.stem, "Merged">>

\* sorted(output_paths)
RECURSIVE Sorted(_)
Sorted(paths) ==
    IF paths = {} THEN <<>>
    ELSE LET least == CHOOSE q \in paths : \A r \in paths : StemRank(q[2]) <= StemRank(r[2])
         IN <<least>> \o Sorted(paths \ {least})

SeqRange(sq) == {sq[j] : j \in 1..Len(sq)}

BatchIdle ==
    /\ files = {}
    /\ selected_mode = "none"
    /\ xlsx_pdf_pairs = {}
    /\ disjoint_files = {}
    /\ n_merging = None
    /\ bt_pc = "idle"
    /\ output_dir_created = FALSE
    /\ common_excel_instance = None
    /\ bt_pair = None
    /\ output_paths = <<>>
    /\ combined_pdf = None
    /\ bt_exc = "none"

\* The program starts: a mode is selected over some working directory.
BatchStart ==
    /\ files \in {fs \in SUBSET AllPaths : Cardinality(fs) <= MaxFiles}
    /\ selected_mode \in {"XLSX_PDF_COMBINE", "PDF_FIRST_PAGE_COMBINE"}
    /\ xlsx_pdf_pairs = {}
    /\ disjoint_files = {}
    /\ n_merging = None
    /\ bt_pc = "scan"
    /\ output_dir_created = FALSE
    /\ common_excel_instance = None
    /\ bt_pair = None
    /\ output_paths = <<>>
    /\ combined_pdf = None
    /\ bt_exc = "none"

\* mode_xlsx_pdf_combine, lines 397-406: the pairs are gathered;
\* DuplicateFileNames is caught and the program exits.
BatchGather ==
    /\ bt_pc = "scan"
    /\ selected_mode = "XLSX_PDF_COMBINE"
    /\ LET got == gather_xlsx_pdf_pairs(files)
       IN IF got.raised # "none"
            THEN /\ bt_pc' = "exit_duplicates"
                 /\ UNCHANGED <<xlsx_pdf_pairs, disjoint_files, n_merging>>
            ELSE /\ xlsx_pdf_pairs' = got.pairs
                 /\ disjoint_files' = got.disjoint
                 /\ n_merging' = Some(Cardinality(got.pairs))
                 /\ bt_pc' = "check_zero"
    /\ UNCHANGED <<files, selected_mode, output_dir_created, common_excel_instance,
                   bt_pair, output_paths, combined_pdf, bt_exc>>

\* mode_pdf_first_page_combine, lines 459-460: the pdfs are listed.
BatchFindPdfs ==
    /\ bt_pc = "scan"
    /\ selected_mode = "PDF_FIRST_PAGE_COMBINE"
    /\ n_merging' =
          Some(Cardinality(get_files_with_ext(files, PDF_EXTENSION, SEARCH_FILES_RECURSIVELY)))
    /\ bt_pc' = "check_zero"
    /\ UNCHANGED <<files, selected_mode, xlsx_pdf_pairs, disjoint_files, output_dir_created,
                   common_excel_instance, bt_pair, output_paths, combined_pdf, bt_exc>>

\* Lines 416 and 469: check_do_not_merge_zero(n).
BatchCheckZero ==
    /\ bt_pc = "check_zero"
    /\ bt_pc' = IF check_do_not_merge_zero(n_merging[1]) THEN "exit_zero" ELSE "confirm_info"
    /\ UNCHANGED <<files, selected_mode, xlsx_pdf_pairs, disjoint_files, n_merging,
                   output_dir_created, common_excel_instance, bt_pair, output_paths,
                   combined_pdf, bt_exc>>

\* Lines 418 and 471: exit_if_not_ok("Is the above information correct?").
BatchConfirmInfo ==
    /\ bt_pc = "confirm_info"
    /\ \E answer \in BOOLEAN : bt_pc' = IF answer THEN "output_dir" ELSE "exit_declined"
    /\ UNCHANGED <<files, selected_mode, xlsx_pdf_pairs, disjoint_files, n_merging,
                   output_dir_created, common_excel_instance, bt_pair, output_paths,
                   combined_pdf, bt_exc>>

\* Lines 420 and 473: check_output_dir_is_ok makes the directory and, when
\* it holds files already, asks whether to go on.
BatchCheckOutputDir ==
    /\ bt_pc = "output_dir"
    /\ output_dir_created' = TRUE
    /\ \E not_empty \in BOOLEAN, answer \in BOOLEAN :
          bt_pc' = IF not_empty /\ ~answer THEN "exit_declined" ELSE "confirm_start"
    /\ UNCHANGED <<files, selected_mode, xlsx_pdf_pairs, disjoint_files, n_merging,
                   common_excel_instance, bt_pair, output_paths, combined_pdf, bt_exc>>

\* Lines 423 and 476: exit_if_not_ok("Start?").
BatchConfirmStart ==
    /\ bt_pc = "confirm_start"
    /\ \E answer \in BOOLEAN :
          bt_pc' = IF ~answer THEN "exit_declined"
                   ELSE IF selected_mode = "XLSX_PDF_COMBINE" THEN "acquire" ELSE "combine"
    /\ UNCHANGED <<files, selected_mode, xlsx_pdf_pairs, disjoint_files, n_merging,
                   output_dir_created, common_excel_instance, bt_pair, output_paths,
                   combined_pdf, bt_exc>>

\* Lines 425-426: common_excel_instance = create_win_excel_instance(), which
\* raises RuntimeError when Excel cannot be dispatched.
BatchAcquireHost ==
    /\ bt_pc = "acquire"
    /\ \/ /\ common_excel_instance' = Some("common")
          /\ bt_pc' = "loop"
          /\ UNCHANGED bt_exc
       \/ /\ bt_exc' = "RuntimeError"
          /\ bt_pc' = "crashed"
          /\ UNCHANGED common_excel_instance
    /\ UNCHANGED <<files, selected_mode, xlsx_pdf_pairs, disjoint_files, n_merging,
                   output_dir_created, bt_pair, output_paths, combined_pdf>>

\* Lines 427-435 and 242-243: the next pair of the dict is taken and
\* merge_pdf_xlsx calls win_xlsx_to_pdf on its workbook with the shared host.
BatchCallConvert ==
    /\ bt_pc = "loop"
    /\ \E pair \in xlsx_pdf_pairs :
          /\ OutputPath(pair[1]) \notin SeqRange(output_paths)
          /\ bt_pair' = Some(pair)
          /\ xlsx' = pair[2].stem
    /\ \E n \in {MaxSheets, 10} : n_sheets' = n
    /\ page_ranges' = DefaultXlsxSheets
    /\ use_excel_instance' = common_excel_instance
    /\ excel_instance' = None
    /\ workbook' = None
    /\ wx_k' = 1
    /\ wx_iter' = <<>>
    /\ saved_worksheet_paths' = <<>>
    /\ cleanup_file_paths' = <<>>
    /\ wx_pending' = "none"
    /\ wx_pc' = "dispatch"
    /\ host_requests' = <<>>
    /\ remove_calls' = <<>>
    /\ bt_pc' = "converting"
    /\ UNCHANGED <<DisplayAlerts, host_workbook_open, host_quit, tmp_files>>
    /\ UNCHANGED <<files, selected_mode, xlsx_pdf_pairs, disjoint_files, n_merging,
                   output_dir_created, common_excel_instance, output_paths, combined_pdf,
                   bt_exc>>

\* Lines 247-250 and 438: the converter returned; the pair's pdf and the
\* converted pdf are merged into the pair's output, which joins output_paths.
\* pdf_merge may raise on a pdf it cannot read.
BatchMergePair ==
    /\ bt_pc = "converting"
    /\ wx_pc = "returned"
    /\ \/ /\ output_paths' = Append(output_paths, OutputPath(bt_pair[1][1]))
          /\ bt_pc' = "loop"
          /\ UNCHANGED bt_exc
       \/ /\ bt_exc' = "other"
          /\ bt_pc' = "crashed"
          /\ UNCHANGED output_paths
    /\ UNCHANGED <<files, selected_mode, xlsx_pdf_pairs, disjoint_files, n_merging,
                   output_dir_created, common_excel_instance, bt_pair, combined_pdf>>
    /\ UNCHANGED winVars

\* The converter raised: neither merge_pdf_xlsx nor the loop of lines
\* 427-438 has a handler, so the exception leaves mode_xlsx_pdf_combine.
BatchConvertRaised ==
    /\ bt_pc = "converting"
    /\ wx_pc = "raised"
    /\ bt_exc' = wx_pending
    /\ bt_pc' = "crashed"
    /\ UNCHANGED <<files, selected_mode, xlsx_pdf_pairs, disjoint_files, n_merging,
                   output_dir_created, common_excel_instance, bt_pair, output_paths,
                   combined_pdf>>
    /\ UNCHANGED winVars

\* Line 441: the loop is over; exit_if_not_ok("Merge all ...?").
BatchConfirmCombine ==
    /\ bt_pc = "loop"
    /\ \A pair \in xlsx_pdf_pairs : OutputPath(pair[1]) \in SeqRange(output_paths)
    /\ \E answer \in BOOLEAN : bt_pc' = IF answer THEN "combine" ELSE "exit_declined"
    /\ UNCHANGED <<files, selected_mode, xlsx_pdf_pairs, disjoint_files, n_merging,
                   output_dir_created, common_excel_instance, bt_pair, output_paths,
                   combined_pdf, bt_exc>>
    /\ UNCHANGED winVars

\* Lines 443-450 and 480-483: the combined pdf is written, from the sorted
\* outputs of the pairs or from the first page of every pdf found.
BatchCombine ==
    /\ bt_pc = "combine"
    /\ \/ /\ selected_mode = "XLSX_PDF_COMBINE"
          /\ combined_pdf' = Some(Sorted(SeqRange(output_paths)))
          /\ bt_pc' = "quit"
          /\ UNCHANGED bt_exc
       \/ /\ selected_mode = "PDF_FIRST_PAGE_COMBINE"
          /\ combined_pdf' =
                Some(get_files_with_ext(files, PDF_EXTENSION, SEARCH_FILES_RECURSIVELY))
          /\ bt_pc' = "done"
          /\ UNCHANGED bt_exc
       \/ /\ bt_exc' = "other"
          /\ bt_pc' = "crashed"
          /\ UNCHANGED combined_pdf
    /\ UNCHANGED <<files, selected_mode, xlsx_pdf_pairs, disjoint_files, n_merging,
                   output_dir_created, common_excel_instance, bt_pair, output_paths>>
    /\ UNCHANGED winVars

\* Line 455: common_excel_instance.Quit()
BatchQuit ==
    /\ bt_pc = "quit"
    /\ host_quit' = host_quit \cup {common_excel_instance[1]}
    /\ \/ bt_pc' = "done" /\ UNCHANGED bt_exc
       \/ bt_pc' = "crashed" /\ bt_exc' = "com_error"
    /\ UNCHANGED <<files, selected_mode, xlsx_pdf_pairs, disjoint_files, n_merging,
                   output_dir_created, common_excel_instance, bt_pair, output_paths,
                   combined_pdf>>
    /\ UNCHANGED <<xlsx, page_ranges, n_sheets, use_excel_instance, excel_instance, workbook,
                   wx_k, wx_iter, saved_worksheet_paths, cleanup_file_paths, wx_pending,
                   wx_pc, DisplayAlerts, host_workbook_open, host_requests, tmp_files,
                   remove_calls>>

\* --------------------------------------------------------- specifications

InitXlsx == XlsxCall /\ MergeIdle /\ WinIdle /\ BatchIdle
NextXlsx ==
    \/ XlsxNextRange /\ UNCHANGED <<mergeVars, winVars, batchVars>>
    \/ XlsxAppend /\ UNCHANGED <<mergeVars, winVars, batchVars>>
    \/ XlsxEndRange /\ UNCHANGED <<mergeVars, winVars, batchVars>>
    \/ XlsxRender /\ UNCHANGED <<mergeVars, winVars, batchVars>>
SpecXlsx == InitXlsx /\ [][NextXlsx]_vars

InitMerge == MergeCall /\ XlsxIdle /\ WinIdle /\ BatchIdle
NextMerge ==
    \/ MergeAppendRange /\ UNCHANGED <<xlsxVars, winVars, batchVars>>
    \/ MergeAppendAll /\ UNCHANGED <<xlsxVars, winVars, batchVars>>
    \/ MergeAppendRaises /\ UNCHANGED <<xlsxVars, winVars, batchVars>>
    \/ MergeWrite /\ UNCHANGED <<xlsxVars, winVars, batchVars>>
SpecMerge == InitMerge /\ [][NextMerge]_vars

InitWin == WinCall /\ XlsxIdle /\ MergeIdle /\ BatchIdle
NextWin ==
    \/ WinDispatch /\ UNCHANGED <<xlsxVars, mergeVars, batchVars>>
    \/ WinHide /\ UNCHANGED <<xlsxVars, mergeVars, batchVars>>
    \/ WinSilence /\ UNCHANGED <<xlsxVars, mergeVars, batchVars>>
    \/ WinOpen /\ UNCHANGED <<xlsxVars, mergeVars, batchVars>>
    \/ WinNextRange /\ UNCHANGED <<xlsxVars, mergeVars, batchVars>>
    \/ WinSaveSheet /\ UNCHANGED <<xlsxVars, mergeVars, batchVars>>
    \/ WinEndRange /\ UNCHANGED <<xlsxVars, mergeVars, batchVars>>
    \/ WinMerge /\ UNCHANGED <<xlsxVars, mergeVars, batchVars>>
    \/ WinTranslate /\ UNCHANGED <<xlsxVars, mergeVars, batchVars>>
    \/ WinClose /\ UNCHANGED <<xlsxVars, mergeVars, batchVars>>
    \/ WinResetAlerts /\ UNCHANGED <<xlsxVars, mergeVars, batchVars>>
    \/ WinQuit /\ UNCHANGED <<xlsxVars, mergeVars, batchVars>>
    \/ WinRemove /\ UNCHANGED <<xlsxVars, mergeVars, batchVars>>
    \/ WinRemoveFails /\ UNCHANGED <<xlsxVars, mergeVars, batchVars>>
    \/ WinReturn /\ UNCHANGED <<xlsxVars, mergeVars, batchVars>>
SpecWin == InitWin /\ [][NextWin]_vars

\* The converter's steps while the program is inside merge_pdf_xlsx.
WinStep ==
    \/ WinDispatch \/ WinHide \/ WinSilence \/ WinOpen \/ WinNextRange \/ WinSaveSheet
    \/ WinEndRange \/ WinMerge \/ WinTranslate \/ WinClose \/ WinResetAlerts \/ WinQuit
    \/ WinRemove \/ WinRemoveFails \/ WinReturn

InitBatch == BatchStart /\ XlsxIdle /\ MergeIdle /\ WinIdle
NextBatch ==
    \/ BatchGather /\ UNCHANGED <<xlsxVars, mergeVars, winVars>>
    \/ BatchFindPdfs /\ UNCHANGED <<xlsxVars, mergeVars, winVars>>
    \/ BatchCheckZero /\ UNCHANGED <<xlsxVars, mergeVars, winVars>>
    \/ BatchConfirmInfo /\ UNCHANGED <<xlsxVars, mergeVars, winVars>>
    \/ BatchCheckOutputDir /\ UNCHANGED <<xlsxVars, mergeVars, winVars>>
    \/ BatchConfirmStart /\ UNCHANGED <<xlsxVars, mergeVars, winVars>>
    \/ BatchAcquireHost /\ UNCHANGED <<xlsxVars, mergeVars, winVars>>
    \/ BatchCallConvert /\ UNCHANGED <<xlsxVars, mergeVars>>
    \/ WinStep /\ bt_pc = "converting" /\ UNCHANGED <<xlsxVars, mergeVars, batchVars>>
    \/ BatchMergePair /\ UNCHANGED <<xlsxVars, mergeVars>>
    \/ BatchConvertRaised /\ UNCHANGED <<xlsxVars, mergeVars>>
    \/ BatchConfirmCombine /\ UNCHANGED <<xlsxVars, mergeVars>>
    \/ BatchCombine /\ UNCHANGED <<xlsxVars, mergeVars>>
    \/ BatchQuit /\ UNCHANGED <<xlsxVars, mergeVars>>
SpecBatch == InitBatch /\ [][NextBatch]_vars

\* ------------------------------------------------------------ properties

Max(a, b) == IF a >= b THEN a ELSE b
Clamp(v, lo, hi) == IF v < lo THEN lo ELSE IF v > hi THEN hi ELSE v
BoundOr(b, default) == IF b = None THEN default ELSE b[1]
FromEnd(v, n) == IF v < 0 THEN v + n ELSE v
BothAbsent(r) == r.start = None /\ r.stop = None

\* The length the specification gives a resolved range: each bound clamped
\* into [0, n] as it stands.
ClaimedLength(r, n) ==
    Max(0, Clamp(BoundOr(r.stop, n), 0, n) - Clamp(BoundOr(r.start, 0), 0, n))

\* The same with a negative bound counted from the end before it is clamped.
SliceLength(r, n) ==
    Max(0, Clamp(FromEnd(BoundOr(r.stop, n), n), 0, n)
           - Clamp(FromEnd(BoundOr(r.start, 0), n), 0, n))

RECURSIVE ClaimedTotal(_, _, _)
ClaimedTotal(ranges, k, n) ==
    IF k = 0 THEN 0 ELSE ClaimedTotal(ranges, k - 1, n) + ClaimedLength(ranges[k], n)

RECURSIVE SliceTotal(_, _, _)
SliceTotal(ranges, k, n) ==
    IF k = 0 THEN 0 ELSE SliceTotal(ranges, k - 1, n) + SliceLength(ranges[k], n)

\* C9 as stated: every range xlsx_to_pdf has resolved against n_sheets added
\* max(0, clamp(end, 0, n) - clamp(start, 0, n)) indices to extract_sheets, a
\* range with both bounds absent added exactly 0, 1, ..., n-1, and nothing is
\* selected from a workbook without sheets.
C9_ClaimedLength ==
    xs_pc \in {"outer", "returned", "raised"} =>
        /\ Len(extract_sheets) = ClaimedTotal(xs_page_ranges, xs_k - 1, xs_n_sheets)
        /\ \A j \in 1..(xs_k - 1) :
              BothAbsent(xs_page_ranges[j]) =>
                 \A i \in 1..xs_n_sheets :
                    extract_sheets[ClaimedTotal(xs_page_ranges, j - 1, xs_n_sheets) + i] = i - 1
        /\ (xs_n_sheets = 0 => extract_sheets = <<>>)

\* C9 as amended: the length is max(0, norm(end) - norm(start)) with
\* norm(b) = clamp(b + n if b < 0 else b, 0, n), a negative bound counting
\* from the end; while a range is being walked, the indices taken and those
\* still to come add up to the same; a range with both bounds absent gives
\* exactly 0, 1, ..., n-1; nothing is selected from a workbook without sheets,
\* and no range fails to resolve: xlsx_to_pdf raises only after the last
\* range, when it has nothing to render.
C9_SliceLength ==
    /\ xs_pc \in {"outer", "returned", "raised"} =>
          /\ Len(extract_sheets) = SliceTotal(xs_page_ranges, xs_k - 1, xs_n_sheets)
          /\ \A j \in 1..(xs_k - 1) :
                BothAbsent(xs_page_ranges[j]) =>
                   \A i \in 1..xs_n_sheets :
                      extract_sheets[SliceTotal(xs_page_ranges, j - 1, xs_n_sheets) + i] = i - 1
    /\ xs_pc = "inner" =>
          Len(extract_sheets) + Len(xs_iter) = SliceTotal(xs_page_ranges, xs_k, xs_n_sheets)
    /\ xs_n_sheets = 0 => extract_sheets = <<>>
    /\ xs_pc = "raised" => (xs_k = Len(xs_page_ranges) + 1 /\ extract_sheets = <<>>)

\* xlsx_to_pdf has resolved "-1:" and then an absent range against 3 sheets:
\* the last sheet, then all three.
C9_Witness ==
    /\ xs_pc = "returned"
    /\ xs_n_sheets = 3
    /\ xs_page_ranges = <<PageRange(Some(-1), None), PageRange(None, None)>>
    /\ extract_sheets = <<2, 0, 1, 2>>

\* The pages a source of n pages contributes: those of each of its ranges,
\* in the order of the list, or all of them when the list is empty.
RECURSIVE RangesSelection(_, _, _)
RangesSelection(path, ranges, n) ==
    IF ranges = <<>> THEN <<>>
    ELSE LET se == indices(Head(ranges), n)
         IN [j \in 1..Max(0, se[2] - se[1]) |-> Page(path, se[1] + j - 1)]
            \o RangesSelection(path, Tail(ranges), n)

SourceSelection(entry, n) ==
    IF entry.page_ranges = <<>> THEN [j \in 1..n |-> Page(entry.path, j - 1)]
    ELSE RangesSelection(entry.path, entry.page_ranges, n)

RECURSIVE PlanSelection(_, _)
PlanSelection(plan, n_pages) ==
    IF plan = <<>> THEN <<>>
    ELSE SourceSelection(Head(plan), n_pages[Head(plan).path])
         \o PlanSelection(Tail(plan), n_pages)

\* How often the plan selects page i of the source of entry.
TimesSelected(entry, n, i) ==
    IF entry.page_ranges = <<>> THEN (IF i < n THEN 1 ELSE 0)
    ELSE Cardinality({j \in 1..Len(entry.page_ranges) :
                        LET se == indices(entry.page_ranges[j], n)
                        IN se[1] <= i /\ i < se[2]})

Occurrences(sq, x) == Cardinality({j \in 1..Len(sq) : sq[j] = x})

\* C8: the file pdf_merge writes holds, source after source in the order of
\* the plan, the pages of each range in the order of the range list, or the
\* whole source for an empty list; a page is there as often as it was
\* selected.
C8_OutputIsConcatenation ==
    pm_pc = "closed" =>
        /\ pm_output = Some(PlanSelection(pm_pdfs, pm_n_pages))
        /\ \A k \in 1..Len(pm_pdfs) : \A i \in 0..MaxPages :
              Occurrences(pm_output[1], Page(pm_pdfs[k].path, i))
                = TimesSelected(pm_pdfs[k], pm_n_pages[pm_pdfs[k].path], i)

\* pdf_merge has written b.pdf's "1:" and ":3" (pages 1 and 2 twice) and
\* then all of the three-page a.pdf.
C8_Witness ==
    /\ pm_pc = "closed"
    /\ pm_pdfs = << [path |-> "b.pdf",
                     page_ranges |-> <<PageRange(Some(1), None), PageRange(None, Some(3))>>],
                    [path |-> "a.pdf", page_ranges |-> <<>>] >>
    /\ pm_n_pages = [p \in MergePaths |-> IF p = "a.pdf" THEN 3 ELSE 4]
    /\ pm_output = Some(<< Page("b.pdf", 1), Page("b.pdf", 2), Page("b.pdf", 3),
                           Page("b.pdf", 0), Page("b.pdf", 1), Page("b.pdf", 2),
                           Page("a.pdf", 0), Page("a.pdf", 1), Page("a.pdf", 2) >>)

\* The host indices the ranges stand for: i + 1 for each index i of each
\* range resolved against n, range after range.
RECURSIVE ExpectedRequests(_, _)
ExpectedRequests(ranges, n) ==
    IF ranges = <<>> THEN <<>>
    ELSE LET se == indices(Head(ranges), n)
         IN [j \in 1..Max(0, se[2] - se[1]) |-> se[1] + j] \o ExpectedRequests(Tail(ranges), n)

IsPrefix(sq, of) == Len(sq) <= Len(of) /\ \A j \in 1..Len(sq) : sq[j] = of[j]

\* C7: the host is only ever asked for sheets 1..n_sheets; what it was asked
\* for is always the beginning of the expected indices, in order, and all of
\* them once the loops of lines 129-145 are over.
C7_HostIndices ==
    /\ \A j \in 1..Len(host_requests) : host_requests[j] \in 1..n_sheets
    /\ IsPrefix(host_requests, ExpectedRequests(page_ranges, n_sheets))
    /\ (wx_pc \in {"cleanup", "returned"} \/ wx_pending = "other") =>
          host_requests = ExpectedRequests(page_ranges, n_sheets)

\* win_xlsx_to_pdf has returned from PageRange("3:5") on a workbook of ten
\* sheets: the host was asked for sheets 4 and 5.
C7_Witness ==
    /\ wx_pc = "returned"
    /\ page_ranges = <<PageRange(Some(3), Some(5))>>
    /\ n_sheets = 10
    /\ host_requests = <<4, 5>>

\* win_xlsx_to_pdf is over: it returned (or only its removal of temp files
\* is left), or an exception left it.
WinOver == wx_pc \in {"cleanup", "returned", "raised"}

\* C2: once win_xlsx_to_pdf is over, a host the call acquired itself has had
\* Quit called on it, whatever the exit path, and a host the caller supplied
\* never has.
C2_HostOwnership ==
    /\ (WinOver /\ use_excel_instance = None /\ excel_instance # None) => "own" \in host_quit
    /\ use_excel_instance # None => "caller" \notin host_quit

\* C3: once win_xlsx_to_pdf is over with a workbook opened, and the finally
\* block ran to its end, the workbook is closed on the host and the host
\* displays its alerts again (DisplayAlerts is TRUE).
C3_ClosedAndAlertsRestored ==
    (/\ workbook # None
     /\ \/ wx_pc \in {"cleanup", "returned"}
        \/ wx_pc = "raised" /\ wx_pending # "com_error")
    => (~host_workbook_open /\ DisplayAlerts = TRUE)

\* C10: when win_xlsx_to_pdf has returned, os.remove was called on every
\* per-sheet file it saved, a failed removal of one of them notwithstanding.
C10_SheetFilesRemoved ==
    wx_pc = "returned" =>
        \A j \in 1..Len(cleanup_file_paths) : cleanup_file_paths[j] \in SeqRange(remove_calls)

\* The loop of lines 427-438 was entered and the program is over, by its own
\* end, by the operator's "no", or by a RuntimeError of a conversion.
BatchOverAfterLoop ==
    /\ selected_mode = "XLSX_PDF_COMBINE"
    /\ common_excel_instance # None
    /\ bt_pc \in {"done", "exit_declined", "crashed"}
    /\ bt_exc \in {"none", "RuntimeError"}

\* C1: when the program is over after its loop over the pairs, every pair
\* whose conversion did not fail has its merged output; only the pair whose
\* conversion raised may be without one.
C1_FailureDoesNotAbortBatch ==
    BatchOverAfterLoop =>
        \A pair \in xlsx_pdf_pairs :
            \/ OutputPath(pair[1]) \in SeqRange(output_paths)
            \/ bt_exc = "RuntimeError" /\ bt_pair = Some(pair)

\* Two of the files have one stem and one extension.
DuplicateStems(fs) ==
    \E f \in fs, g \in fs : f # g /\ f.ext = g.ext /\ f.stem = g.stem

\* C4: over files with a duplicate stem inside one extension,
\* gather_xlsx_pdf_pairs raises DuplicateFileNames and mode_xlsx_pdf_combine
\* goes no further than its exit: no pair is chosen, no output directory, no
\* host, no conversion, no merge.
C4_DuplicatesHalt ==
    (selected_mode = "XLSX_PDF_COMBINE" /\ DuplicateStems(files)) =>
        /\ gather_xlsx_pdf_pairs(files).raised = "DuplicateFileNames"
        /\ bt_pc \in {"scan", "exit_duplicates"}
        /\ xlsx_pdf_pairs = {}
        /\ ~output_dir_created
        /\ common_excel_instance = None
        /\ wx_pc = "idle"
        /\ host_requests = <<>>
        /\ output_paths = <<>>
        /\ combined_pdf = None

\* Two spreadsheets named Jan made mode_xlsx_pdf_combine exit, beside a
\* matching pdf.
C4_Witness ==
    /\ bt_pc = "exit_duplicates"
    /\ files = { Path(".", "Jan", PDF_EXTENSION), Path(".", "Jan", EXCEL_EXTENSION),
                 Path("sub", "Jan", EXCEL_EXTENSION) }

PdfStems(fs) == {f.stem : f \in {g \in fs : g.ext = PDF_EXTENSION}}
XlsxStems(fs) == {f.stem : f \in {g \in fs : g.ext = EXCEL_EXTENSION}}

\* C5: over files without duplicate stems, the pairs gather_xlsx_pdf_pairs
\* returned are the (pdf, xlsx) of one stem, one for each stem found under
\* both extensions; the unmatched names are those found under exactly one;
\* and a run that reaches its end has merged every pair, unmatched names or
\* not.
C5_PairsAndUnmatched ==
    (selected_mode = "XLSX_PDF_COMBINE" /\ ~DuplicateStems(files) /\ bt_pc # "scan") =>
        /\ xlsx_pdf_pairs = {pq \in files \X files :
                               /\ pq[1].ext = PDF_EXTENSION
                               /\ pq[2].ext = EXCEL_EXTENSION
                               /\ pq[1].stem = pq[2].stem}
        /\ \A st \in Stems :
              Cardinality({pq \in xlsx_pdf_pairs : pq[1].stem = st})
                = (IF st \in PdfStems(files) /\ st \in XlsxStems(files) THEN 1 ELSE 0)
        /\ disjoint_files = {st \in Stems : (st \in PdfStems(files)) # (st \in XlsxStems(files))}
        /\ bt_pc = "done" =>
              \A pq \in xlsx_pdf_pairs : OutputPath(pq[1]) \in SeqRange(output_paths)

\* Jan.pdf, Jan.xlsx and Feb.pdf: the run ended with the pair Jan merged and
\* Feb reported unmatched.
C5_Witness ==
    /\ bt_pc = "done"
    /\ files = { Path(".", "Jan", PDF_EXTENSION), Path(".", "Jan", EXCEL_EXTENSION),
                 Path(".", "Feb", PDF_EXTENSION) }
    /\ xlsx_pdf_pairs = {<<Path(".", "Jan", PDF_EXTENSION), Path(".", "Jan", EXCEL_EXTENSION)>>}
    /\ disjoint_files = {"Feb"}
    /\ output_paths = <<OutputPath(Path(".", "Jan", PDF_EXTENSION))>>

\* There is nothing to merge: no stem under both extensions in the combine
\* mode, no pdf in the first-page mode.
NothingToMerge ==
    \/ /\ selected_mode = "XLSX_PDF_COMBINE"
       /\ ~DuplicateStems(files)
       /\ PdfStems(files) \cap XlsxStems(files) = {}
    \/ /\ selected_mode = "PDF_FIRST_PAGE_COMBINE"
       /\ PdfStems(files) = {}

\* C6: with the guard on and nothing to merge, the program goes no further
\* than the guard's exit: no output directory, no host, no conversion, no
\* merged or combined pdf.
C6_ZeroGuard ==
    (DISALLOW_ZERO_PAGE_PDF_MERGE /\ NothingToMerge) =>
        /\ bt_pc \in {"scan", "check_zero", "exit_zero"}
        /\ ~output_dir_created
        /\ common_excel_instance = None
        /\ wx_pc = "idle"
        /\ output_paths = <<>>
        /\ combined_pdf = None

\* The combine mode exited at the guard over two files that do not match.
C6_Witness ==
    /\ bt_pc = "exit_zero"
    /\ selected_mode = "XLSX_PDF_COMBINE"
    /\ files = { Path(".", "Jan", PDF_EXTENSION), Path(".", "Feb", EXCEL_EXTENSION) }
    /\ n_merging = Some(0)

====
